---- MODULE Spec2Model ----
(***************************************************************************)
(* Model of the rusty_webf_sys binding layer: the base Event capability,   *)
(* its dynamic-downcast dispatcher, the derived CloseEvent / FocusEvent    *)
(* composition chain and the Node tree-mutation operations.                *)
(*                                                                         *)
(* The caller side (Rust) is translated from event.rs, close_event.rs,     *)
(* focus_event.rs and node.rs.  The foreign side (the C++ objects behind   *)
(* the method tables) is not part of these files; it is modelled from the  *)
(* interface contract and every such definition is named Foreign*.         *)
(***************************************************************************)
EXTENDS Integers, Sequences, FiniteSets, TLC

VARIABLES
  objs,      \* caller-side capability objects, in order of construction
  alive,     \* indices of objs whose owning scope has not ended yet
  released,  \* released[i]: release calls the foreign side received from objs[i]
  fev,       \* foreign state of the dispatched event object
  disposed,  \* foreign-owned status cells: handles whose object is destroyed
  exc,       \* exception-state flags, one per exception-state object
  children,  \* foreign DOM: children[n] is the child list of node n
  last,      \* the most recent caller-side operation and what it did
  panicked   \* the thread is unwinding after a failed assert!

vars == <<objs, alive, released, fev, disposed, exc, children, last, panicked>>

----------------------------------------------------------------------------
(* Bounds *)

\* capability objects one handler may construct (the dispatched Event included)
MaxObjs == 2

\* nodes of the foreign document
MaxNodes == 2

----------------------------------------------------------------------------
(* Pointers, contexts, tables *)

NullPtr == <<"null", 0>>
EventPtr == <<"event", 1>>
NodePtr(n) == <<"node", n>>
NodeIds == 1..MaxNodes

\* the status reference of an object that was constructed without one
NoStatus == <<"none", 0>>

Ctx == "ctx"
NullCtx == "null"
Contexts == {Ctx, NullCtx}

ExceptionStates == {"es1"}

NoOp == [op |-> "none", obj |-> 0, arg |-> <<>>, es |-> "none", outcome |-> "none",
         ret |-> <<>>, fwd |-> <<>>, made |-> 0, wasDisposed |-> FALSE,
         raised |-> FALSE, before |-> <<>>, follows |-> <<>>, steps |-> <<>>]

\* the value of last in a run that keeps no record of its operations
Quiet == [NoOp EXCEPT !.op = "quiet"]

\* what an operation writes to last
Note(rec) == IF last = Quiet THEN Quiet ELSE rec

\* enum EventType
EventType ==
  [Event |-> 0, CustomEvent |-> 1, AnimationEvent |-> 2, CloseEvent |-> 3,
   GestureEvent |-> 4, HashchangeEvent |-> 5, IntersectionChangeEvent |-> 6,
   TransitionEvent |-> 7, UIEvent |-> 8, FocusEvent |-> 9, InputEvent |-> 10,
   MouseEvent |-> 11, PointerEvent |-> 12]

\* the as_* methods of Event: the tag each passes to dynamic_to, the refinement
\* it builds on success and the mismatch error it returns
AsMethods ==
  [as_custom_event |->
     [tag |-> EventType.CustomEvent, builds |-> "CustomEvent",
      err |-> "The type value of Event does not belong to the CustomEvent type."],
   as_animation_event |->
     [tag |-> EventType.AnimationEvent, builds |-> "AnimationEvent",
      err |-> "The type value of Event does not belong to the AnimationEvent type."],
   as_close_event |->
     [tag |-> EventType.CloseEvent, builds |-> "CloseEvent",
      err |-> "The type value of Event does not belong to the CloseEvent type."],
   as_gesture_event |->
     [tag |-> EventType.GestureEvent, builds |-> "GestureEvent",
      err |-> "The type value of Event does not belong to the GestureEvent type."],
   as_hashchange_event |->
     [tag |-> EventType.HashchangeEvent, builds |-> "HashchangeEvent",
      err |-> "The type value of Event does not belong to the HashchangeEvent type."],
   as_intersection_change_event |->
     [tag |-> EventType.IntersectionChangeEvent, builds |-> "IntersectionChangeEvent",
      err |-> "The type value of Event does not belong to the IntersectionChangeEvent type."],
   as_transition_event |->
     [tag |-> EventType.TransitionEvent, builds |-> "TransitionEvent",
      err |-> "The type value of Event does not belong to the TransitionEvent type."],
   as_ui_event |->
     [tag |-> EventType.UIEvent, builds |-> "UIEvent",
      err |-> "The type value of Event does not belong to the UIEvent type."],
   as_focus_event |->
     [tag |-> EventType.FocusEvent, builds |-> "FocusEvent",
      err |-> "The type value of Event does not belong to the FocusEvent type."],
   as_input_event |->
     [tag |-> EventType.InputEvent, builds |-> "InputEvent",
      err |-> "The type value of Event does not belong to the InputEvent type."],
   as_mouse_event |->
     [tag |-> EventType.MouseEvent, builds |-> "MouseEvent",
      err |-> "The type value of Event does not belong to the MouseEvent type."],
   as_pointer_event |->
     [tag |-> EventType.PointerEvent, builds |-> "PointerEvent",
      err |-> "The type value of Event does not belong to the PointerEvent type."]]

DowncastMethods == DOMAIN AsMethods

\* A method table is named by the path that reaches it: <<"CloseEvent">> is the
\* table of a close event, <<"CloseEvent", "event">> its embedded parent table.
TableSlice(method_pointer, field) == Append(method_pointer, field)

IsEventTable(method_pointer) ==
  \/ method_pointer = <<"Event">>
  \/ Len(method_pointer) > 1 /\ method_pointer[Len(method_pointer)] = "event"

----------------------------------------------------------------------------
(* The foreign side, as far as the binding layer depends on it *)

\* which refinement embeds which parent (CloseEvent.event, FocusEvent.ui_event,
\* UIEvent.event)
ParentKind == [CloseEvent |-> "Event", UIEvent |-> "Event", FocusEvent |-> "UIEvent"]

RECURSIVE AncestorKinds(_)
AncestorKinds(kind) ==
  IF kind \in DOMAIN ParentKind THEN {kind} \cup AncestorKinds(ParentKind[kind])
  ELSE {kind}

\* the actual types the dispatched foreign event may have
ActualKinds == {"Event", "CloseEvent", "FocusEvent"}

\* the payload of a close event on the foreign side: code, reason, was_clean
ClosePayloads(kind) ==
  IF kind = "CloseEvent"
  THEN { [code |-> 1000, reason |-> "bye", was_clean |-> 2],
         [code |-> 1006, reason |-> "", was_clean |-> 0] }
  ELSE { [code |-> 0, reason |-> "", was_clean |-> 0] }

\* the flags the event may carry when the listener is entered
EventFlags ==
  { [bubbles |-> 0, cancel_bubble |-> 0, default_prevented |-> 0],
    [bubbles |-> 1, cancel_bubble |-> 1, default_prevented |-> 1] }

ForeignNewEvent(kind, payload, flags) ==
  [kind |-> kind, bubbles |-> flags.bubbles, cancel_bubble |-> flags.cancel_bubble,
   cancelable |-> 1, default_prevented |-> flags.default_prevented,
   is_trusted |-> 1, time_stamp |-> 42,
   type_ |-> "click", code |-> payload.code, reason |-> payload.reason,
   was_clean |-> payload.was_clean]

\* dynamic_to on the foreign side: a null value when the object is not an
\* instance of the tagged type, otherwise the same object with the table of
\* the tagged type and the object's status cell
ForeignDynamicTo(f, ptr, tag) ==
  IF \E k \in AncestorKinds(f.kind) : EventType[k] = tag
  THEN [value |-> ptr,
        method_pointer |-> <<CHOOSE k \in DOMAIN EventType : EventType[k] = tag>>,
        status |-> ptr]
  ELSE [value |-> NullPtr, method_pointer |-> <<>>, status |-> NullPtr]

\* the effect of a mutating table function on the foreign object
ForeignApply(f, fn, arg) ==
  CASE fn = "set_cancel_bubble" ->
         IF arg[1] # 0 THEN [f EXCEPT !.cancel_bubble = 1] ELSE f
    [] fn = "init_event" ->
         [f EXCEPT !.type_ = arg[1], !.bubbles = arg[2], !.cancelable = arg[3],
                   !.cancel_bubble = 0, !.default_prevented = 0]
    [] fn = "prevent_default" -> [f EXCEPT !.default_prevented = 1]
    [] fn = "stop_immediate_propagation" -> [f EXCEPT !.cancel_bubble = 1]
    [] fn = "stop_propagation" -> [f EXCEPT !.cancel_bubble = 1]

\* the accessors whose table function returns a string
StringAccessors == {"type_", "reason"}

\* the strings of the model and their UTF-8 bytes
KnownStrings == {"", "bye", "click", "close", "junk"}

Utf8(s) ==
  CASE s = "bye" -> <<98, 121, 101>>
    [] s = "click" -> <<99, 108, 105, 99, 107>>
    [] s = "close" -> <<99, 108, 111, 115, 101>>
    [] s = "junk" -> <<106, 117, 110, 107>>
    [] OTHER -> <<>>

\* a string as it crosses the boundary: a NUL-terminated byte buffer
ToCString(s) == Append(Utf8(s), 0)

\* what a table function returns for the field value v of the foreign object
ForeignReturn(fn, v) == IF fn \in StringAccessors THEN ToCString(v) ELSE v

\* what a read of a destroyed foreign object may return
ForeignGarbage(fn) ==
  CASE fn \in {"time_stamp", "code"} -> {0, 7}
    [] fn \in StringAccessors -> {ToCString(""), ToCString("junk")}
    [] OTHER -> {0, 1}

\* whether the table holds function fn in the slot the caller reads it from
TableHas(table, fn) ==
  IF fn \in {"code", "reason", "was_clean"}
  THEN table = <<"CloseEvent">>
  ELSE IsEventTable(table)

\* the values a pure read through a table can return: the field of the object,
\* or anything when the object is destroyed or the slot or the handle is wrong
ForeignRead(f, table, ptr, fn) ==
  IF ptr \in disposed \/ ptr # EventPtr \/ ~TableHas(table, fn)
  THEN ForeignGarbage(fn) \cup {ForeignReturn(fn, f[fn])}
  ELSE {ForeignReturn(fn, f[fn])}

\* an exception state whose flag every call resets before it runs
ResetByEachCall(flags, es, raise) == [flags EXCEPT ![es] = raise]

\* the exception state after a forwarded call: the foreign side sets the flag
\* when it raises and never clears it
ForeignRaise(flags, es, raise) ==
  IF raise THEN [flags EXCEPT ![es] = TRUE] ELSE flags

\* ExceptionState::stringify: the message rendered with help of the context
ForeignStringify(es) == "exception"

----------------------------------------------------------------------------
(* Caller side: construction *)

EventInitialize(ptr, context, method_pointer, status) ==
  [ptr |-> ptr, context |-> context, method_pointer |-> method_pointer,
   status |-> status]

\* a derived initializer that hands its own table to the embedded Event
\* instead of the parent slice of it
InitializeWithOwnTable(ptr, context, method_pointer, status) ==
  [event |-> EventInitialize(ptr, context, method_pointer, status),
   method_pointer |-> method_pointer]

CloseEventInitialize(ptr, context, method_pointer, status) ==
  [event |-> EventInitialize(ptr, context, TableSlice(method_pointer, "event"), status),
   method_pointer |-> method_pointer]

UIEventInitialize(ptr, context, method_pointer, status) ==
  [event |-> EventInitialize(ptr, context, TableSlice(method_pointer, "event"), status),
   method_pointer |-> method_pointer]

FocusEventInitialize(ptr, context, method_pointer, status) ==
  [ui_event |-> UIEventInitialize(ptr, context, TableSlice(method_pointer, "ui_event"), status),
   method_pointer |-> method_pointer]

\* X::initialize for the refinement X an as_* method builds
Initialize(kind, ptr, context, method_pointer, status) ==
  [kind |-> kind,
   val |-> CASE kind = "FocusEvent" ->
                  FocusEventInitialize(ptr, context, method_pointer, status)
             [] kind = "UIEvent" ->
                  UIEventInitialize(ptr, context, method_pointer, status)
             [] OTHER ->
                  CloseEventInitialize(ptr, context, method_pointer, status)]

\* a forwarding that dispatches through the derived object's own table instead
\* of the table of its embedded Event
ThroughOwnTable(o) ==
  CASE o.kind = "Event" -> o.val
    [] o.kind = "FocusEvent" ->
         [o.val.ui_event.event EXCEPT !.method_pointer = o.val.method_pointer]
    [] OTHER -> [o.val.event EXCEPT !.method_pointer = o.val.method_pointer]

\* as_event: the embedded base Event of a capability object
AsEvent(o) ==
  CASE o.kind = "Event" -> o.val
    [] o.kind = "FocusEvent" -> o.val.ui_event.event
    [] OTHER -> o.val.event

IsEventObj(o) == o.kind \notin {"Node", "EventTarget"}

\* the handle, context, table and status an object is built around
BaseOf(o) ==
  CASE o.kind = "Node" -> o.val.event_target
    [] o.kind = "EventTarget" -> o.val
    [] OTHER -> AsEvent(o)

\* event-side objects the listener holds or has held
Room == Cardinality({i \in 1..Len(objs) : objs[i].kind # "Node"}) < MaxObjs

\* Event::context: assert!(!self.context.is_null())
ContextAsserts(e) == e.context = NullCtx

----------------------------------------------------------------------------
(* Caller side: operations of the event capability set *)

BoolAccessors ==
  {"bubbles", "cancel_bubble", "cancelable", "default_prevented", "is_trusted",
   "was_clean"}

EventAccessors ==
  {"bubbles", "cancel_bubble", "cancelable", "default_prevented", "is_trusted",
   "time_stamp", "type_"}

CloseEventAccessors == {"code", "reason", "was_clean"}

EventMutators ==
  {"set_cancel_bubble", "init_event", "prevent_default",
   "stop_immediate_propagation", "stop_propagation"}

\* a type name with a NUL byte in the middle
NulString == "cl<NUL>se"

\* CString::new(type_).unwrap(): panics on an interior NUL byte
CStringNewPanics(fn, arg) == fn = "init_event" /\ arg[1] = NulString

\* the arguments the handler passes to a mutator
MutatorArgs(fn) ==
  CASE fn = "set_cancel_bubble" -> {<<TRUE>>, <<FALSE>>}
    [] fn = "init_event" -> {<<"close", TRUE, FALSE>>, <<NulString, TRUE, FALSE>>}
    [] OTHER -> {<<>>}

\* i32::from(bool)
I32FromBool(b) == IF b THEN 1 ELSE 0

\* the arguments as forwarded: booleans cross the boundary as 32-bit integers
ForwardedArgs(fn, arg) ==
  CASE fn = "set_cancel_bubble" -> <<I32FromBool(arg[1])>>
    [] fn = "init_event" -> <<arg[1], I32FromBool(arg[2]), I32FromBool(arg[3])>>
    [] OTHER -> <<>>

\* an accessor that returns the value inverted
Inverted(fn, value) == IF fn \in BoolAccessors THEN value = 0 ELSE value

\* a conversion that drops the bytes of the buffer
EmptyString(buf) == ""

\* the bytes of a buffer before its first NUL
RECURSIVE UntilNul(_)
UntilNul(buf) ==
  IF buf = <<>> \/ Head(buf) = 0 THEN <<>>
  ELSE <<Head(buf)>> \o UntilNul(Tail(buf))

\* CStr::from_ptr(value).to_str().unwrap().to_string()
FromCStr(buf) == CHOOSE s \in KnownStrings : Utf8(s) = UntilNul(buf)

\* what an accessor returns for the value the foreign side handed back
AccessorResult(fn, value) ==
  IF fn \in BoolAccessors THEN value # 0
  ELSE IF fn \in StringAccessors THEN FromCStr(value)
  ELSE value

\* the table and handle an accessor of object o dispatches through
AccessorTable(o, fn) ==
  IF fn \in EventAccessors THEN AsEvent(o).method_pointer ELSE o.val.method_pointer

Call(fn, table, ptr, arg, es) ==
  [fn |-> fn, table |-> table, ptr |-> ptr, arg |-> arg, es |-> es]

\* what a default_prevented call remembers of the call before it: whether that
\* was a prevent_default on the same object during which the foreign side raised
Follows(i, fn) ==
  IF fn = "default_prevented" /\ last.op = "prevent_default" /\ last.raised
     /\ last.obj = i
  THEN <<last.outcome>>
  ELSE <<>>

Accessor(i, fn) ==
  /\ ~panicked
  /\ i \in alive
  /\ IsEventObj(objs[i])
  /\ fn \in EventAccessors
       \cup (IF objs[i].kind = "CloseEvent" THEN CloseEventAccessors ELSE {})
  /\ LET e == AsEvent(objs[i]) IN
     \E value \in ForeignRead(fev, AccessorTable(objs[i], fn), e.ptr, fn) :
       last' = Note([op |-> fn, obj |-> i, arg |-> <<>>, es |-> "none", outcome |-> "ok",
                ret |-> AccessorResult(fn, value),
                fwd |-> <<Call(fn, AccessorTable(objs[i], fn), e.ptr, <<>>, "none")>>,
                made |-> 0, wasDisposed |-> e.status \in disposed,
                raised |-> FALSE, before |-> <<>>, follows |-> Follows(i, fn),
                steps |-> <<>>])
  /\ UNCHANGED <<objs, alive, released, fev, disposed, exc, children, panicked>>

\* a mutator that returns Ok(()) without looking at the exception state
NeverFails(has_exception, e) == "ok"

\* if exception_state.has_exception() { return Err(stringify(self.context())) } Ok(())
FallibleOutcome(has_exception, e) ==
  IF has_exception
  THEN IF ContextAsserts(e) THEN "abort" ELSE "err"
  ELSE "ok"

FallibleRet(outcome, es) ==
  CASE outcome = "err" -> <<"Err", ForeignStringify(es)>>
    [] outcome = "ok" -> <<"Ok">>
    [] OTHER -> <<>>

\* the order in which a mutator touches the foreign side: the forwarded call,
\* the has_exception query, and on failure self.context() and stringify
MutatorSteps(has_exception, e) ==
  <<"call", "has_exception">>
    \o (IF ~has_exception THEN <<>>
        ELSE IF ContextAsserts(e) THEN <<"context">>
        ELSE <<"context", "stringify">>)

Mutator(i, fn, arg, es) ==
  /\ ~panicked
  /\ i \in alive
  /\ IsEventObj(objs[i])
  /\ fn \in EventMutators
  /\ arg \in MutatorArgs(fn)
  /\ LET e == AsEvent(objs[i])
         rec == [op |-> fn, obj |-> i, arg |-> arg, es |-> es, outcome |-> "abort",
                 ret |-> <<>>, fwd |-> <<>>, made |-> 0,
                 wasDisposed |-> e.status \in disposed, raised |-> FALSE,
                 before |-> <<exc[es]>>, follows |-> <<>>, steps |-> <<>>]
     IN IF CStringNewPanics(fn, arg)
        THEN /\ panicked' = TRUE
             /\ last' = Note(rec)
             /\ UNCHANGED <<fev, exc>>
        ELSE \E raise \in BOOLEAN, applied \in BOOLEAN :
          LET exc2 == ForeignRaise(exc, es, raise)
              outcome == FallibleOutcome(exc2[es], e)
          IN /\ (~raise => applied)
             /\ fev' = IF applied THEN ForeignApply(fev, fn, ForwardedArgs(fn, arg))
                       ELSE fev
             /\ exc' = exc2
             /\ panicked' = (outcome = "abort")
             /\ last' = Note([rec EXCEPT
                        !.outcome = outcome,
                        !.ret = FallibleRet(outcome, es),
                        !.fwd = <<Call(fn, e.method_pointer, e.ptr,
                                       ForwardedArgs(fn, arg), es)>>,
                        !.raised = raise,
                        !.steps = MutatorSteps(exc2[es], e)])
  /\ UNCHANGED <<objs, alive, released, disposed, children>>

\* a downcast without the liveness assertion
NeverAsserts(e) == FALSE

\* assert!(!(*self.status).disposed, ...)
StatusAsserts(e) == e.status \in disposed

\* a downcast that never takes the mismatch branch
NeverMismatch(raw_ptr) == FALSE

\* if raw_ptr.value == std::ptr::null() { return Err(...) }
IsMismatch(raw_ptr) == raw_ptr.value = NullPtr

\* a mismatch branch that gives the source object back to the foreign side
ReleasesSource(e) == <<Call("release", e.method_pointer, e.ptr, <<>>, "none")>>

\* the calls the mismatch branch forwards for the source object before it
\* returns Err: none
MismatchReleases(e) == <<>>

\* as_* methods that all pass the tag of one of them
CopiedTag(m) == EventType.UIEvent

\* the tag an as_* method hands to dynamic_to
TagPassed(m) == AsMethods[m].tag

Downcast(i, m) ==
  /\ ~panicked
  /\ i \in alive
  /\ IsEventObj(objs[i])
  /\ m \in DowncastMethods
  /\ LET e == AsEvent(objs[i])
         raw_ptr == ForeignDynamicTo(fev, e.ptr, TagPassed(m))
         call == Call("dynamic_to", e.method_pointer, e.ptr, <<TagPassed(m)>>, "none")
         rec == [op |-> m, obj |-> i, arg |-> <<>>, es |-> "none", outcome |-> "abort",
                 ret |-> <<>>, fwd |-> <<>>, made |-> 0,
                 wasDisposed |-> e.status \in disposed, raised |-> FALSE,
                 before |-> <<>>, follows |-> <<>>, steps |-> <<>>]
     IN IF StatusAsserts(e)
        THEN /\ panicked' = TRUE
             /\ last' = Note(rec)
             /\ UNCHANGED <<objs, alive, released>>
        ELSE IF IsMismatch(raw_ptr)
        THEN /\ last' = Note([rec EXCEPT !.outcome = "err",
                                         !.ret = <<"Err", AsMethods[m].err>>,
                                         !.fwd = <<call>> \o MismatchReleases(e)])
             /\ released' = [released EXCEPT ![i] = @ + Len(MismatchReleases(e))]
             /\ UNCHANGED <<objs, alive, panicked>>
        ELSE /\ Room
             /\ objs' = Append(objs, Initialize(AsMethods[m].builds, raw_ptr.value,
                                                e.context, raw_ptr.method_pointer,
                                                raw_ptr.status))
             /\ alive' = alive \cup {Len(objs) + 1}
             /\ released' = Append(released, 0)
             /\ last' = Note([rec EXCEPT !.outcome = "ok", !.ret = <<"Ok", Len(objs) + 1>>,
                                         !.fwd = <<call>>, !.made = Len(objs) + 1])
             /\ UNCHANGED panicked
  /\ UNCHANGED <<fev, disposed, exc, children>>

\* the drop glue of a type that implements no Drop: nothing is forwarded
NoDrop(e) == <<>>

\* the release calls the drop glue of a capability object issues: only Event
\* implements Drop, and every refinement embeds exactly one Event
EventDrop(e) == <<Call("release", e.method_pointer, e.ptr, <<>>, "none")>>

\* Drop for EventTarget, which a Node embeds
EventTargetDrop(t) == <<Call("release", t.method_pointer, t.ptr, <<>>, "none")>>

DropReleases(o) ==
  IF IsEventObj(o) THEN EventDrop(AsEvent(o)) ELSE EventTargetDrop(BaseOf(o))

\* the owning scope of objs[i] ends (also while unwinding)
Drop(i) ==
  /\ i \in alive
  /\ alive' = alive \ {i}
  /\ released' = [released EXCEPT ![i] = @ + Len(DropReleases(objs[i]))]
  /\ last' = Note([op |-> "drop", obj |-> i, arg |-> <<>>, es |-> "none", outcome |-> "ok",
              ret |-> <<>>, fwd |-> DropReleases(objs[i]), made |-> 0,
              wasDisposed |-> BaseOf(objs[i]).ptr \in disposed, raised |-> FALSE,
              before |-> <<>>, follows |-> <<>>, steps |-> <<>>])
  /\ UNCHANGED <<objs, fev, disposed, exc, children, panicked>>

\* the foreign side destroys the event object and marks its status cell
ForeignDispose ==
  /\ ~panicked
  /\ EventPtr \notin disposed
  /\ disposed' = disposed \cup {EventPtr}
  /\ UNCHANGED <<objs, alive, released, fev, exc, children, last, panicked>>

----------------------------------------------------------------------------
(* The foreign document tree *)

Range(seq) == {seq[k] : k \in 1..Len(seq)}

Without(seq, n) == SelectSeq(seq, LAMBDA x : x # n)

ParentsOf(ch, n) == {p \in DOMAIN ch : n \in Range(ch[p])}

RECURSIVE AncestorsOrSelf(_, _)
AncestorsOrSelf(ch, n) ==
  {n} \cup UNION {AncestorsOrSelf(ch, p) : p \in ParentsOf(ch, n)}

NodeOf(ptr) == ptr[2]

NodeValue(n) ==
  [value |-> NodePtr(n), method_pointer |-> <<"Node">>, status |-> NodePtr(n)]

NullValue == [value |-> NullPtr, method_pointer |-> <<>>, status |-> NullPtr]

\* appendChild on the foreign side: a node cannot be attached below itself;
\* otherwise it leaves its present parent and becomes the last child
ForeignAppendChild(ch, p, n) ==
  IF n \in AncestorsOrSelf(ch, p)
  THEN [raise |-> TRUE, children |-> ch, value |-> NullValue]
  ELSE [raise |-> FALSE,
        children |-> [q \in DOMAIN ch |->
                        IF q = p THEN Append(Without(ch[q], n), n)
                        ELSE Without(ch[q], n)],
        value |-> NodeValue(n)]

\* removeChild on the foreign side: only a child of the parent can be removed
ForeignRemoveChild(ch, p, n) ==
  IF n \notin Range(ch[p])
  THEN [raise |-> TRUE, children |-> ch, value |-> NullValue]
  ELSE [raise |-> FALSE,
        children |-> [ch EXCEPT ![p] = Without(ch[p], n)],
        value |-> NodeValue(n)]

\* the table functions of NodeRustMethods
ForeignNodeCall(slot, ch, p, n) ==
  IF slot = "append_child" THEN ForeignAppendChild(ch, p, n)
  ELSE ForeignRemoveChild(ch, p, n)

\* the target the foreign side reports for the dispatched event
TargetPtr == NodePtr(1)

ForeignTarget ==
  [value |-> TargetPtr, method_pointer |-> <<"EventTarget">>, status |-> TargetPtr]

----------------------------------------------------------------------------
(* Caller side: nodes and event targets *)

\* EventTarget::initialize as Event::target calls it, with the status reference
EventTargetInitialize(ptr, context, method_pointer, status) ==
  [ptr |-> ptr, context |-> context, method_pointer |-> method_pointer,
   status |-> status]

\* EventTarget::initialize as Node::initialize calls it: no status reference
EventTargetInitializeNoStatus(ptr, context, method_pointer) ==
  [ptr |-> ptr, context |-> context, method_pointer |-> method_pointer,
   status |-> NoStatus]

\* Node::initialize
NodeInitialize(ptr, context, method_pointer) ==
  [kind |-> "Node",
   val |-> [event_target |->
              EventTargetInitializeNoStatus(ptr, context,
                                            TableSlice(method_pointer, "event_target")),
            method_pointer |-> method_pointer]]

\* EventTarget::context
TargetContextAsserts(t) == t.context = NullCtx

\* both node operations calling the append_child slot
BothAppend == [append_child |-> "append_child", remove_child |-> "append_child"]

\* the name of the table function each node operation calls
NodeOps == [append_child |-> "append_child", remove_child |-> "remove_node"]

\* what a node operation remembers of the call before it
NodeFollows(fn, i, j) ==
  CASE fn = "remove_child" /\ last.op = "append_child" /\ last.outcome = "ok"
       /\ BaseOf(objs[last.obj]).ptr = BaseOf(objs[i]).ptr
       /\ BaseOf(objs[last.arg[1]]).ptr = BaseOf(objs[j]).ptr
         -> <<"appended", last.before[2]>>
    [] fn = "append_child" /\ last.op = "remove_child" /\ last.outcome = "ok"
       /\ last.made = j
         -> <<"returned">> \o last.follows
    [] OTHER -> <<>>

\* a result built on the receiver's own handle
FromReceiver(returned_result, self_target, new_node) ==
  [ptr |-> self_target.ptr, method_pointer |-> returned_result.method_pointer]

\* the pair the result object is built from
ResultSource(returned_result, self_target, new_node) ==
  [ptr |-> returned_result.value, method_pointer |-> returned_result.method_pointer]

\* a node operation that builds its result before it looks at the exception
\* state
InitializeBeforeCheck(has_exception, t) ==
  <<"call", "context", "initialize", "has_exception">>

\* the order in which a node operation touches the foreign side: the
\* forwarded call, the has_exception query, event_target.context(), and then
\* stringify on failure or T::initialize on success
NodeOpSteps(has_exception, t) ==
  <<"call", "has_exception">>
    \o (IF TargetContextAsserts(t) THEN <<"context">>
        ELSE IF has_exception THEN <<"context", "stringify">>
        ELSE <<"context", "initialize">>)

\* Node::append_child and Node::remove_child
NodeOp(fn, i, j, es) ==
  /\ ~panicked
  /\ {i, j} \subseteq alive
  /\ objs[i].kind = "Node" /\ objs[j].kind = "Node"
  /\ fn \in DOMAIN NodeOps
  /\ LET event_target == objs[i].val.event_target
         new_node == BaseOf(objs[j])
         got == ForeignNodeCall(NodeOps[fn], children, NodeOf(event_target.ptr),
                                NodeOf(new_node.ptr))
         exc2 == ForeignRaise(exc, es, got.raise)
         outcome == IF TargetContextAsserts(event_target) THEN "abort"
                    ELSE IF exc2[es] THEN "err" ELSE "ok"
         src == ResultSource(got.value, event_target, new_node)
         rec == [op |-> fn, obj |-> i, arg |-> <<j>>, es |-> es, outcome |-> outcome,
                 ret |-> FallibleRet(outcome, es),
                 fwd |-> <<Call(NodeOps[fn], objs[i].val.method_pointer,
                                event_target.ptr, <<new_node.ptr>>, es)>>,
                 made |-> 0, wasDisposed |-> event_target.ptr \in disposed,
                 raised |-> got.raise, before |-> <<exc[es], children[NodeOf(event_target.ptr)]>>,
                 follows |-> NodeFollows(fn, i, j),
                 steps |-> NodeOpSteps(exc2[es], event_target)]
     IN /\ children' = got.children
        /\ exc' = exc2
        /\ panicked' = (outcome = "abort")
        /\ IF outcome = "ok"
           THEN /\ Len(objs) < MaxNodes + MaxObjs
                /\ objs' = Append(objs, NodeInitialize(src.ptr, event_target.context,
                                                       src.method_pointer))
                /\ alive' = alive \cup {Len(objs) + 1}
                /\ released' = Append(released, 0)
                /\ last' = Note([rec EXCEPT !.ret = <<"Ok", Len(objs) + 1>>,
                                            !.made = Len(objs) + 1])
           ELSE /\ last' = Note(rec)
                /\ UNCHANGED <<objs, alive, released>>
  /\ UNCHANGED <<fev, disposed>>

TargetAccessors == {"current_target", "src_element", "target"}

\* Event::current_target, Event::src_element and Event::target
Target(i, fn) ==
  /\ ~panicked
  /\ i \in alive
  /\ IsEventObj(objs[i])
  /\ fn \in TargetAccessors
  /\ LET e == AsEvent(objs[i])
         value == ForeignTarget
         rec == [op |-> fn, obj |-> i, arg |-> <<>>, es |-> "none", outcome |-> "abort",
                 ret |-> <<>>, fwd |-> <<Call(fn, e.method_pointer, e.ptr, <<>>, "none")>>,
                 made |-> 0, wasDisposed |-> e.status \in disposed, raised |-> FALSE,
                 before |-> <<>>, follows |-> <<>>, steps |-> <<>>]
     IN IF ContextAsserts(e)
        THEN /\ panicked' = TRUE
             /\ last' = Note(rec)
             /\ UNCHANGED <<objs, alive, released>>
        ELSE /\ Room
             /\ objs' = Append(objs, [kind |-> "EventTarget",
                                       val |-> EventTargetInitialize(value.value, e.context,
                                                 value.method_pointer, value.status)])
             /\ alive' = alive \cup {Len(objs) + 1}
             /\ released' = Append(released, 0)
             /\ last' = Note([rec EXCEPT !.outcome = "ok", !.ret = <<"Ok", Len(objs) + 1>>,
                                         !.made = Len(objs) + 1])
             /\ UNCHANGED panicked
  /\ UNCHANGED <<fev, disposed, exc, children>>

\* the foreign side destroys a node and marks its status cell
ForeignDisposeNode(n) ==
  /\ ~panicked
  /\ NodePtr(n) \notin disposed
  /\ disposed' = disposed \cup {NodePtr(n)}
  /\ UNCHANGED <<objs, alive, released, fev, exc, children, last, panicked>>

----------------------------------------------------------------------------
(* A listener invoked with the dispatched event *)

InitWith(note) ==
  /\ \E kind \in ActualKinds, context \in Contexts, flags \in EventFlags :
     \E payload \in ClosePayloads(kind) :
       /\ fev = ForeignNewEvent(kind, payload, flags)
       /\ objs = <<[kind |-> "Event",
                    val |-> EventInitialize(EventPtr, context, <<"Event">>, EventPtr)]>>
  /\ alive = {1}
  /\ released = <<0>>
  /\ disposed = {}
  /\ exc = [es \in ExceptionStates |-> FALSE]
  /\ children = [n \in NodeIds |-> <<>>]
  /\ last = note
  /\ panicked = FALSE

Init == InitWith(NoOp)

InitQuiet == InitWith(Quiet)

Accessors ==
  \E i \in 1..Len(objs), fn \in EventAccessors \cup CloseEventAccessors :
    Accessor(i, fn)

Mutators ==
  \E i \in 1..Len(objs), fn \in EventMutators, es \in ExceptionStates :
    \E arg \in MutatorArgs(fn) : Mutator(i, fn, arg, es)

Downcasts == \E i \in 1..Len(objs), m \in DowncastMethods : Downcast(i, m)

Drops == \E i \in 1..Len(objs) : Drop(i)

Next == Accessors \/ Mutators \/ Downcasts \/ Drops \/ ForeignDispose

\* a listener using every operation of the event capability set
Spec == Init /\ [][Next]_vars

\* the same listener, keeping no record of its operations
SpecQuiet == InitQuiet /\ [][Next]_vars

NextCast == Accessors \/ Downcasts \/ Drops \/ ForeignDispose

\* a listener that reads and re-classifies the event
SpecCast == Init /\ [][NextCast]_vars

NextMut == Accessors \/ Mutators \/ Drops \/ ForeignDispose

\* a listener that reads and mutates the event
SpecMut == Init /\ [][NextMut]_vars

NextRetry == Accessors \/ Mutators \/ Downcasts \/ Drops

\* a listener that tries one tag after another and falls back to the base
\* operations, while the foreign side keeps the event
SpecRetry == Init /\ [][NextRetry]_vars

----------------------------------------------------------------------------
(* An application editing the document tree *)

\* the documents the application starts from: no node attached, or node 2
\* the only child of node 1
InitialDocuments ==
  { [n \in NodeIds |-> <<>>],
    [n \in NodeIds |-> IF n = 1 THEN <<2>> ELSE <<>>] }

\* the document has vended one Node per foreign node
InitNode ==
  /\ objs = [n \in NodeIds |-> NodeInitialize(NodePtr(n), Ctx, <<"Node">>)]
  /\ alive = NodeIds
  /\ released = [n \in NodeIds |-> 0]
  /\ fev = ForeignNewEvent("Event", CHOOSE p \in ClosePayloads("Event") : TRUE,
                           CHOOSE f \in EventFlags : f.bubbles = 0)
  /\ disposed = {}
  /\ exc = [es \in ExceptionStates |-> FALSE]
  /\ children \in InitialDocuments
  /\ last = NoOp
  /\ panicked = FALSE

\* the application calls the operations on the Nodes the document vended and
\* passes any Node it holds, results of earlier operations included
NodeOperations ==
  \E fn \in DOMAIN NodeOps, i \in NodeIds, j \in 1..Len(objs),
     es \in ExceptionStates : NodeOp(fn, i, j, es)

\* the result of the latest node operation goes out of scope; the record of it
\* is taken off the store
DropResult ==
  /\ Len(objs) > MaxNodes
  /\ Len(objs) \in alive
  /\ objs' = SubSeq(objs, 1, Len(objs) - 1)
  /\ alive' = alive \ {Len(objs)}
  /\ released' = SubSeq(released, 1, Len(objs) - 1)
  /\ last' = Note([NoOp EXCEPT !.op = "drop", !.obj = Len(objs), !.outcome = "ok",
                               !.fwd = DropReleases(objs[Len(objs)])])
  /\ UNCHANGED <<fev, disposed, exc, children, panicked>>

NextNode == NodeOperations \/ DropResult

SpecNode == InitNode /\ [][NextNode]_vars

----------------------------------------------------------------------------
(* A handler that either mutates the event it was given or edits the
   document tree: the fallible operations of the binding layer *)

InitEdit == Init \/ InitNode

NextEdit == Mutators \/ NodeOperations \/ DropResult

SpecEdit == InitEdit /\ [][NextEdit]_vars

----------------------------------------------------------------------------
(* A listener that asks for the target of the event while the application
   holds a Node for it *)

InitTarget ==
  /\ \E kind \in ActualKinds, context \in Contexts :
       /\ fev = ForeignNewEvent(kind, CHOOSE p \in ClosePayloads(kind) : TRUE,
                                CHOOSE f \in EventFlags : f.bubbles = 0)
       /\ objs = <<[kind |-> "Event",
                    val |-> EventInitialize(EventPtr, context, <<"Event">>, EventPtr)],
                   NodeInitialize(TargetPtr, Ctx, <<"Node">>)>>
  /\ alive = {1, 2}
  /\ released = <<0, 0>>
  /\ disposed = {}
  /\ exc = [es \in ExceptionStates |-> FALSE]
  /\ children = [n \in NodeIds |-> <<>>]
  /\ last = NoOp
  /\ panicked = FALSE

Targets == \E i \in 1..Len(objs), fn \in TargetAccessors : Target(i, fn)

NextTarget ==
  \/ Targets
  \/ Downcasts
  \/ Drops
  \/ ForeignDispose
  \/ ForeignDisposeNode(NodeOf(TargetPtr))

SpecTarget == InitTarget /\ [][NextTarget]_vars

----------------------------------------------------------------------------
(* Properties *)

\* C1: every capability object constructed so far, the dispatched Event and
\* every object a downcast built (CloseEvent, FocusEvent, UIEvent embed their
\* parent Event), has had exactly one release call forwarded for it once its
\* owning scope has ended and none before: never 0 and never 2 or more,
\* whatever accessor, mutator and downcast calls were made in between.
ExactlyOneRelease ==
  \A i \in 1..Len(objs) : released[i] = IF i \in alive THEN 0 ELSE 1

\* the Event and a refinement built from it were used, a mutator raised, and
\* both have been dropped
ReleasedAfterUse ==
  /\ Len(objs) = 2 /\ alive = {}
  /\ objs[2].kind \in {"CloseEvent", "FocusEvent"}
  /\ exc["es1"]
  /\ released = <<1, 1>>

\* C2: an operation (accessor, mutator, downcast, derived accessor) invoked on
\* an object whose disposal status is "disposed" takes the fatal-abort path
\* and forwards no call to the foreign side.
DisposedUseAborts ==
  (last.op \notin {"none", "drop"} /\ last.wasDisposed)
    => (last.outcome = "abort" /\ last.fwd = <<>>)

\* the as_* methods whose tag the foreign object is not an instance of
Mismatched == {m \in DowncastMethods : AsMethods[m].builds \notin AncestorKinds(fev.kind)}

\* C3: a downcast of a live Event with a tag that does not match the type of
\* the foreign object returns the typed mismatch error of that as_* method
\* and constructs no object; no object ever wraps the null result, so no
\* release is issued for it later.
MismatchedDowncastFails ==
  /\ \A k \in 1..Len(objs) : BaseOf(objs[k]).ptr # NullPtr
  /\ (last.op \in Mismatched /\ ~last.wasDisposed)
       => /\ last.outcome = "err"
          /\ last.ret = <<"Err", AsMethods[last.op].err>>
          /\ last.made = 0
          /\ Len(last.fwd) = 1 /\ last.fwd[1].fn = "dynamic_to"

\* a focus event was asked to be a close event and the listener got the error
MismatchSeen ==
  /\ fev.kind = "FocusEvent"
  /\ last.op = "as_close_event" /\ ~last.wasDisposed
  /\ last.ret = <<"Err", "The type value of Event does not belong to the CloseEvent type.">>
  /\ Len(objs) = 1

\* the results a base accessor can return when read through object o
ReadThrough(o, fn) ==
  {AccessorResult(fn, value) :
     value \in ForeignRead(fev, AccessorTable(o, fn), AsEvent(o).ptr, fn)}

\* C4: a downcast of a live Event to the tag of the refinement the foreign
\* object actually is succeeds and builds that refinement, and while the
\* foreign object is live every base accessor (bubbles, cancel_bubble,
\* cancelable, default_prevented, is_trusted, time_stamp, type_) read through
\* an object built by a downcast returns the one value the same accessor
\* returns through the original Event.
MatchingDowncastAgrees ==
  /\ (last.op \in DowncastMethods /\ ~last.wasDisposed
        /\ AsMethods[last.op].builds = fev.kind)
       => /\ last.outcome = "ok"
          /\ last.made \in 1..Len(objs)
          /\ objs[last.made].kind = fev.kind
  /\ EventPtr \notin disposed
       => \A j \in 1..Len(objs), fn \in EventAccessors :
            /\ ReadThrough(objs[j], fn) = ReadThrough(objs[1], fn)
            /\ Cardinality(ReadThrough(objs[j], fn)) = 1
  /\ (last.op \in EventAccessors /\ EventPtr \notin disposed)
       => {last.ret} = ReadThrough(objs[1], last.op)

\* a close event was downcast to CloseEvent and type_ was read through the
\* result
ReadThroughRefinement ==
  /\ fev.kind = "CloseEvent"
  /\ Len(objs) = 2 /\ objs[2].kind = "CloseEvent" /\ alive = {1, 2}
  /\ last.op = "type_" /\ last.obj = 2 /\ last.ret = "click"
  /\ EventPtr \notin disposed

\* the call a mutator recorded in last must have forwarded
ForwardedOnce ==
  /\ Len(last.fwd) = 1
  /\ last.fwd[1].fn = last.op
  /\ last.fwd[1].ptr = AsEvent(objs[last.obj]).ptr
  /\ last.fwd[1].arg = ForwardedArgs(last.op, last.arg)
  /\ last.fwd[1].es = last.es

PreventDefaultKeepsNoCopy ==
  /\ (last.op = "prevent_default" /\ last.raised
        /\ ~ContextAsserts(AsEvent(objs[last.obj])))
       => (last.outcome = "err" /\ last.ret = <<"Err", ForeignStringify(last.es)>>
           /\ last.ret[2] # "")
  /\ (last.op = "default_prevented" /\ EventPtr \notin disposed)
       => last.ret = (fev.default_prevented # 0)
  /\ \A k \in 1..Len(objs) :
       /\ DOMAIN AsEvent(objs[k]) = {"ptr", "context", "method_pointer", "status"}
       /\ AsEvent(objs[k]).ptr = EventPtr
       /\ AsEvent(objs[k]).status = EventPtr
       /\ IsEventTable(AsEvent(objs[k]).method_pointer)

\* default_prevented read right after a prevent_default that failed while the
\* foreign side had set the flag all the same
ReadAfterFailedPreventDefault ==
  /\ last.op = "default_prevented" /\ last.follows = <<"err">>
  /\ EventPtr \notin disposed
  /\ last.ret = TRUE /\ fev.default_prevented = 1

\* the foreign nodes the receiver and the argument of the node operation
\* recorded in last stand for
LastParent == NodeOf(BaseOf(objs[last.obj]).ptr)

LastChild == NodeOf(BaseOf(objs[last.arg[1]]).ptr)

\* C6: for append_child and remove_child, when the exception state reports
\* a foreign exception after the call the operation returns a failure and
\* builds no object; when it reports none the operation builds exactly one
\* fresh Node, the newest object of the store, on the handle and the table
\* the foreign call returned (the node attached or detached), not on the
\* receiver's own handle.
NodeOpBuildsFromReturned ==
  last.op \in DOMAIN NodeOps
    => /\ Len(last.fwd) = 1
       /\ last.raised => exc[last.es]
       /\ exc[last.es]
            => /\ last.outcome = "err" /\ last.ret[1] = "Err"
               /\ last.made = 0
       /\ ~exc[last.es]
            => /\ last.outcome = "ok"
               /\ last.made = Len(objs) /\ last.ret = <<"Ok", last.made>>
               /\ last.made \in alive /\ released[last.made] = 0
               /\ last.made \notin {last.obj, last.arg[1]}
               /\ objs[last.made].kind = "Node"
               /\ BaseOf(objs[last.made]).ptr = NodeValue(LastChild).value
               /\ objs[last.made].val.method_pointer = NodeValue(LastChild).method_pointer
               /\ BaseOf(objs[last.made]).context = BaseOf(objs[last.obj]).context

\* node 2 was appended to node 1 and the result stands for node 2, not for
\* the receiver
ResultIsTheChild ==
  /\ last.op = "append_child" /\ last.outcome = "ok"
  /\ LastParent = 1 /\ LastChild = 2
  /\ BaseOf(objs[last.made]).ptr = NodePtr(2)

ReappendedReturned ==
  /\ last.op = "append_child" /\ last.follows = <<"returned">>
  /\ last.outcome = "ok"
  /\ LastParent = 1 /\ children[1] = <<2>>

\* C9: every operation (accessor, mutator on either path, downcast) invoked
\* on an Event constructed with a null context aborts; none returns a value
\* or builds an object carrying the null context.
NullContextAborts ==
  /\ (last.op \notin {"none", "drop"} /\ ContextAsserts(AsEvent(objs[last.obj])))
       => last.outcome = "abort"
  /\ \A k \in 2..Len(objs) : ~ContextAsserts(BaseOf(objs[k]))

\* whether object o sees its foreign object as destroyed
ObservesDisposed(o) ==
  BaseOf(o).status # NoStatus /\ BaseOf(o).status \in disposed

\* C10: in every state, all live capability objects that reference the same
\* foreign object (the Event and the objects downcast from it, the Nodes and
\* EventTargets of one node) observe the same disposal status.  No action of
\* the caller side changes disposed; only ForeignDispose and
\* ForeignDisposeNode do.
SameStatusObserved ==
  \A i \in alive, j \in alive :
    BaseOf(objs[i]).ptr = BaseOf(objs[j]).ptr
      => ObservesDisposed(objs[i]) = ObservesDisposed(objs[j])

\* C11: for a live foreign object of close-event type reached through a
\* generic Event handle, as_close_event succeeds and builds a CloseEvent;
\* code, reason and was_clean read through it return exactly what the
\* foreign side holds (was_clean true iff the foreign integer is non-zero);
\* and as_focus_event on the same handle fails and builds nothing.
CloseEventValues ==
  (fev.kind = "CloseEvent" /\ EventPtr \notin disposed)
    => /\ last.op = "as_close_event"
            => /\ last.outcome = "ok"
               /\ objs[last.made].kind = "CloseEvent"
               /\ AsEvent(objs[last.made]).ptr = AsEvent(objs[last.obj]).ptr
       /\ last.op = "as_focus_event"
            => /\ last.outcome = "err" /\ last.made = 0
               /\ last.ret = <<"Err", AsMethods["as_focus_event"].err>>
       /\ last.op = "code" => last.ret = fev.code
       /\ last.op = "reason" => last.ret = fev.reason
       /\ last.op = "was_clean" => last.ret = (fev.was_clean # 0)

\* a close event with reason "bye" and the clean flag 2 was downcast and its
\* reason read through the CloseEvent
CloseReasonRead ==
  /\ fev.kind = "CloseEvent" /\ fev.was_clean = 2
  /\ EventPtr \notin disposed
  /\ last.op = "reason" /\ objs[last.obj].kind = "CloseEvent"
  /\ last.ret = "bye"

\* the step is an as_* call that returned the mismatch error
FailedDowncastStep ==
  last' # last /\ last'.op \in DowncastMethods /\ last'.outcome = "err"

\* every base operation, every downcast that has room for its result and
\* the drop can be invoked on object i
StillUsable(i) ==
  /\ \A fn \in EventAccessors : ENABLED Accessor(i, fn)
  /\ \A fn \in EventMutators, es \in ExceptionStates :
       \A arg \in MutatorArgs(fn) : ENABLED Mutator(i, fn, arg, es)
  /\ \A m \in DowncastMethods : (Room \/ m \in Mismatched) => ENABLED Downcast(i, m)
  /\ ENABLED Drop(i)

\* C12: a failed downcast of a live Event changes nothing: the objects (the
\* source's handle, context, table and status among them), the release
\* counts and the foreign state are the same after it as before; after it
\* every base operation and a downcast to any other tag can be invoked on
\* the source; and every object still has one release once dropped and none
\* before.
FailedDowncastRecoverable ==
  /\ [][FailedDowncastStep
          => UNCHANGED <<objs, alive, released, fev, disposed, exc, children, panicked>>]_vars
  /\ []((last.op \in DowncastMethods /\ last.outcome = "err") => StillUsable(last.obj))
  /\ [](\A i \in 1..Len(objs) : released[i] = IF i \in alive THEN 0 ELSE 1)

\* as_focus_event has just failed on a close event whose flags a mutator had
\* changed before; as_close_event can be invoked next and nothing was released
RetryPossible ==
  /\ fev.kind = "CloseEvent" /\ exc["es1"]
  /\ last.op = "as_focus_event" /\ last.outcome = "err" /\ last.obj = 1
  /\ alive = {1} /\ released = <<0>>
  /\ ENABLED Downcast(1, "as_close_event")
  /\ ENABLED Mutator(1, "prevent_default", <<>>, "es1")

\* C13: in every as_* downcast the status of the source is asserted before
\* dynamic_to is called: a downcast of a source whose status is disposed
\* forwards nothing, aborts, and returns neither the mismatch error nor an
\* object; and dynamic_to is only ever forwarded for a source that was live.
AssertBeforeDynamicTo ==
  last.op \in DowncastMethods
    => /\ last.wasDisposed
            => /\ last.fwd = <<>>
               /\ last.outcome = "abort" /\ last.ret = <<>> /\ last.made = 0
               /\ panicked
       /\ last.fwd # <<>>
            => /\ ~last.wasDisposed
               /\ last.fwd[1].fn = "dynamic_to"
               /\ last.fwd[1].ptr = AsEvent(objs[last.obj]).ptr

\* as_pointer_event was called after the foreign side destroyed the event
DowncastOfDisposedAborted ==
  /\ last.op = "as_pointer_event" /\ last.wasDisposed
  /\ last.outcome = "abort" /\ last.fwd = <<>>
  /\ panicked /\ Len(objs) = 1

\* C14: in every fallible operation that forwards its call (the five Event
\* mutators, append_child, remove_child) the has_exception query comes right
\* after the forwarded call: no other foreign function is called in between,
\* and a result object is built only after the query, so an operation that
\* ends in a failure has built none.
CheckRightAfterCall ==
  (last.op \in EventMutators \cup DOMAIN NodeOps /\ last.fwd # <<>>)
    => /\ Len(last.steps) >= 2
       /\ last.steps[1] = "call" /\ last.steps[2] = "has_exception"
       /\ \A k \in 3..Len(last.steps) : last.steps[k] # "call"
       /\ (last.made # 0) = (\E k \in 3..Len(last.steps) : last.steps[k] = "initialize")
       /\ last.outcome = "err" => last.steps[Len(last.steps)] = "stringify"
       /\ last.outcome # "ok" => last.made = 0

\* an append_child built its result after the check
CheckedThenBuilt ==
  /\ last.op = "append_child" /\ last.outcome = "ok"
  /\ last.steps = <<"call", "has_exception", "context", "initialize">>
  /\ last.made = Len(objs)

\* the Event a derived object embeds, as its initializer built it
EmbeddedEvent(o) ==
  IF o.kind = "FocusEvent" THEN o.val.ui_event.event ELSE o.val.event

\* the parent slice of the derived object's own method table
ParentSliceOf(o) ==
  IF o.kind = "FocusEvent"
  THEN TableSlice(TableSlice(o.val.method_pointer, "ui_event"), "event")
  ELSE TableSlice(o.val.method_pointer, "event")

\* the step is a base operation invoked on a derived object
DerivedBaseStep ==
  /\ last' # last
  /\ last'.op \in EventAccessors \cup EventMutators
  /\ objs[last'.obj].kind # "Event"
  /\ last'.fwd # <<>>

\* the results and effects the same operation has on the base Event objs[1],
\* built around the same foreign handle with the table <<"Event">>
SameAsOnBase ==
  LET fn == last'.op
      base == objs[1].val
      args == ForwardedArgs(fn, last'.arg)
  IN IF fn \in EventAccessors
     THEN /\ last'.ret \in {AccessorResult(fn, value) :
                              value \in ForeignRead(fev, base.method_pointer, base.ptr, fn)}
          /\ UNCHANGED <<fev, exc>>
     ELSE /\ fev' = IF last'.raised /\ fev' = fev THEN fev
                    ELSE ForeignApply(fev, fn, args)
          /\ exc' = IF last'.raised THEN [exc EXCEPT ![last'.es] = TRUE] ELSE exc
          /\ last'.outcome = FallibleOutcome(exc'[last'.es], base)
          /\ last'.ret = FallibleRet(last'.outcome, last'.es)

\* C15: every operation of the base event capability set invoked on a derived
\* object (a CloseEvent through its embedded Event, a FocusEvent through the
\* Event of its embedded UIEvent) forwards exactly one call, with the foreign
\* handle the derived object was built from and the parent slice of the
\* derived object's own method table, and has the result and the foreign-side
\* effect the operation has on the base Event for that handle; as_event is
\* that embedded Event.
DerivedForwardsToEmbedded ==
  /\ [](\A i \in 1..Len(objs) :
          (IsEventObj(objs[i]) /\ objs[i].kind # "Event")
            => /\ AsEvent(objs[i]) = EmbeddedEvent(objs[i])
               /\ EmbeddedEvent(objs[i]).ptr = objs[1].val.ptr
               /\ EmbeddedEvent(objs[i]).method_pointer = ParentSliceOf(objs[i])
               /\ IsEventTable(ParentSliceOf(objs[i])))
  /\ [][DerivedBaseStep
         => /\ last'.fwd = <<Call(last'.op, ParentSliceOf(objs[last'.obj]),
                                  objs[1].val.ptr,
                                  IF last'.op \in EventMutators
                                  THEN ForwardedArgs(last'.op, last'.arg) ELSE <<>>,
                                  last'.es)>>
            /\ SameAsOnBase]_vars

\* prevent_default through a FocusEvent took effect on the foreign event that
\* the original Event reads
PreventedThroughFocusEvent ==
  /\ last.op = "prevent_default" /\ last.outcome = "ok"
  /\ objs[last.obj].kind = "FocusEvent"
  /\ AsEvent(objs[last.obj]).method_pointer = <<"FocusEvent", "ui_event", "event">>
  /\ fev.default_prevented = 1

\* the 13 event types, in the order the enum declares them
EventTypeNames ==
  <<"Event", "CustomEvent", "AnimationEvent", "CloseEvent", "GestureEvent",
    "HashchangeEvent", "IntersectionChangeEvent", "TransitionEvent", "UIEvent",
    "FocusEvent", "InputEvent", "MouseEvent", "PointerEvent">>

\* the as_* methods in the order event.rs defines them, each next to the type
\* its mismatch message names
MessageNames ==
  [as_custom_event |-> "CustomEvent", as_animation_event |-> "AnimationEvent",
   as_close_event |-> "CloseEvent", as_gesture_event |-> "GestureEvent",
   as_hashchange_event |-> "HashchangeEvent",
   as_intersection_change_event |-> "IntersectionChangeEvent",
   as_transition_event |-> "TransitionEvent", as_ui_event |-> "UIEvent",
   as_focus_event |-> "FocusEvent", as_input_event |-> "InputEvent",
   as_mouse_event |-> "MouseEvent", as_pointer_event |-> "PointerEvent"]

\* C16: the event type tags are the integers 0..12, one per type, in
\* declaration order with no gap and no duplicate; each as_X method passes to
\* dynamic_to exactly the tag of the type X it builds on success and names in
\* its mismatch message, so an object it returns is of a type the foreign
\* object is an instance of.
TagsMatchBuiltTypes ==
  /\ DOMAIN EventType = {EventTypeNames[k] : k \in 1..13}
  /\ \A k \in 1..13 : EventType[EventTypeNames[k]] = k - 1
  /\ DOMAIN MessageNames = DowncastMethods
  /\ \A m \in DowncastMethods :
       /\ AsMethods[m].builds = MessageNames[m]
       /\ AsMethods[m].builds \in DOMAIN EventType \ {"Event"}
       /\ \A n \in DowncastMethods :
            (AsMethods[m].err = AsMethods[n].err) = (m = n)
  /\ (last.op \in DowncastMethods /\ last.fwd # <<>>)
       => /\ last.fwd[1].fn = "dynamic_to"
          /\ last.fwd[1].arg = <<EventType[MessageNames[last.op]]>>
          /\ last.outcome = "err" => last.ret = <<"Err", AsMethods[last.op].err>>
          /\ last.outcome = "ok"
               => /\ objs[last.made].kind = MessageNames[last.op]
                  /\ objs[last.made].kind \in AncestorKinds(fev.kind)

\* as_focus_event passed the tag 9 and built a FocusEvent
FocusTagPassed ==
  /\ last.op = "as_focus_event" /\ last.outcome = "ok"
  /\ last.fwd[1].arg = <<9>>
  /\ objs[last.made].kind = "FocusEvent"

\* the step is a node operation that did not return Ok
FailedNodeStep ==
  last' # last /\ last'.op \in DOMAIN NodeOps /\ last'.outcome # "ok"

\* C17: the result of a fallible operation (the five Event mutators,
\* append_child, remove_child) depends only on the flag the exception state
\* holds after the forwarded call. No operation clears the flag, so once it is
\* set on a shared exception state every later operation on that state
\* forwards its call and still fails, also when its own call raised nothing;
\* append_child and remove_child then drop the returned pair: they build no
\* object and release nothing.
StaleFlagFailsEveryLaterCall ==
  /\ [](\A es \in ExceptionStates :
          (last.op \in EventMutators \cup DOMAIN NodeOps /\ last.fwd # <<>>
             /\ last.es = es)
            => /\ Len(last.fwd) = 1
               /\ exc[es] = (last.before[1] \/ last.raised)
               /\ exc[es] => last.outcome \in {"err", "abort"}
               /\ (exc[es] /\ last.outcome = "err")
                    => last.ret = <<"Err", ForeignStringify(es)>>
               /\ (~exc[es] /\ BaseOf(objs[last.obj]).context # NullCtx)
                    => last.outcome = "ok"
               /\ last.outcome # "ok" => last.made = 0)
  /\ [][\A es \in ExceptionStates : exc[es] => exc'[es]]_vars
  /\ [][FailedNodeStep => UNCHANGED <<objs, alive, released>>]_vars

\* an append_child on a state an earlier call left set: the foreign side
\* attached the child and raised nothing, the caller got the failure and no
\* object
StaleAppendDiscards ==
  /\ last.op = "append_child" /\ ~last.raised /\ last.before[1]
  /\ last.outcome = "err" /\ last.made = 0
  /\ children[NodeOf(BaseOf(objs[last.obj]).ptr)] # last.before[2]

====
